---- MODULE Spec2Model ----
(***************************************************************************)
(* Model of api/index.py: the two-node LangGraph pipeline (inspector ->    *)
(* consultant -> END) behind POST /analyze.                                *)
(*                                                                         *)
(* A Python str is a sequence of characters (one-character strings, or a   *)
(* longer token standing for a fixed piece of prompt or message text).     *)
(***************************************************************************)
EXTENDS Integers, Sequences, FiniteSets, TLC

VARIABLES
    body,       \* body[r]: the JSON body of request r as received
    pc,         \* pc[r]: where request r is
    state,      \* state[r]: the GraphState of request r's graph run
    calls,      \* calls[r]: the llm.invoke calls made for request r, in order
    resp,       \* resp[r]: the HTTP response sent for request r
    running,    \* the request whose handler occupies the event loop, 0 if none
    writes,     \* writes[r][f]: the nodes that wrote field f of state[r], in order
    fn_in,      \* input of the function under study (function specification)
    fn_out      \* its result

vars == <<body, pc, state, calls, resp, running, writes, fn_in, fn_out>>

(***************************************************************************)
(* Bounds                                                                  *)
(***************************************************************************)
MaxReq == 2      \* requests
MaxLen == 1      \* length of a text inside an oracle content
MaxParts == 2    \* parts of a list content

Requests == 1..MaxReq

(***************************************************************************)
(* Python values the oracle's response.content can hold                    *)
(***************************************************************************)
Char == {"a", "b"}

RECURSIVE SeqsUpTo(_, _)
SeqsUpTo(S, n) ==
    IF n = 0 THEN {<< >>}
    ELSE LET shorter == SeqsUpTo(S, n - 1)
         IN  shorter \cup {Append(t, x) : t \in {u \in shorter : Len(u) = n - 1}, x \in S}

Texts == SeqsUpTo(Char, MaxLen)

StrV(t)  == [tag |-> "str",  s |-> t,     n |-> 0, parts |-> << >>]
NoneV    == [tag |-> "none", s |-> << >>, n |-> 0, parts |-> << >>]
IntV(i)  == [tag |-> "int",  s |-> << >>, n |-> i, parts |-> << >>]
ListV(p) == [tag |-> "list", s |-> << >>, n |-> 0, parts |-> p]

\* a dict part {"type": ty, "text": v}, a dict part without a "text" key, and a
\* list element that is no dict
DictPart(ty, v) == [kind |-> "dict", type |-> ty, has_text |-> TRUE,  val |-> v]
DictNoText(ty)  == [kind |-> "dict", type |-> ty, has_text |-> FALSE, val |-> NoneV]
Elem(v)         == [kind |-> "elem", type |-> "",  has_text |-> FALSE, val |-> v]

Scalars == {StrV(t) : t \in Texts} \cup {NoneV, IntV(10)}
PartTypes == {"text", "image_url"}
Parts ==
    {DictPart(ty, v) : ty \in PartTypes, v \in Scalars}
    \cup {DictNoText(ty) : ty \in PartTypes}
    \cup {Elem(v) : v \in Scalars}

AllContents == Scalars \cup {ListV(p) : p \in SeqsUpTo(Parts, MaxParts)}

(***************************************************************************)
(* Python builtins used by the normalization                               *)
(***************************************************************************)
Digit(d) ==
    CASE d = 0 -> "0" [] d = 1 -> "1" [] d = 2 -> "2" [] d = 3 -> "3" [] d = 4 -> "4"
      [] d = 5 -> "5" [] d = 6 -> "6" [] d = 7 -> "7" [] d = 8 -> "8" [] d = 9 -> "9"

RECURSIVE NatToStr(_)
NatToStr(i) == IF i < 10 THEN <<Digit(i)>> ELSE Append(NatToStr(i \div 10), Digit(i % 10))

\* type(v).__name__
TypeName(v) ==
    CASE v.tag = "str" -> "str" [] v.tag = "none" -> "NoneType"
      [] v.tag = "int" -> "int" [] v.tag = "list" -> "list"

\* str(v) of a scalar
PyStr(v) ==
    CASE v.tag = "str"  -> v.s
      [] v.tag = "none" -> <<"N", "o", "n", "e">>
      [] v.tag = "int"  -> IF v.n < 0 THEN <<"-">> \o NatToStr(-v.n) ELSE NatToStr(v.n)

Ok(t)     == [ok |-> TRUE,  s |-> t,     exc |-> [cls |-> "", msg |-> << >>]]
Raised(e) == [ok |-> FALSE, s |-> << >>, exc |-> e]

\* ''.join(items): the items in order; TypeError at the first item that is no str
RECURSIVE JoinFrom(_, _)
JoinFrom(items, i) ==
    IF i > Len(items) THEN Ok(<< >>)
    ELSE IF items[i].tag # "str"
         THEN Raised([cls |-> "TypeError",
                      msg |-> <<"sequence item ">> \o NatToStr(i - 1)
                              \o <<": expected str instance, ", TypeName(items[i]), " found">>])
         ELSE LET rest == JoinFrom(items, i + 1)
              IN  IF rest.ok THEN Ok(items[i].s \o rest.s) ELSE rest

PyJoin(items) == JoinFrom(items, 1)

\* Faulty variant: an element that is no dict is dropped
PartTextDictsOnly(part) ==
    IF part.kind = "dict"
    THEN IF part.has_text THEN part.val ELSE StrV(<< >>)
    ELSE StrV(<< >>)

\* part.get('text', '') if isinstance(part, dict) else str(part)
PartText(part) ==
    IF part.kind = "dict"
    THEN IF part.has_text THEN part.val ELSE StrV(<< >>)
    ELSE StrV(PyStr(part.val))

(***************************************************************************)
(* Output normalization of the two nodes                                   *)
(***************************************************************************)
\* node_inspector: analysis_text = response.content; joined if a list; str()
NormalizeInspector(c) ==
    IF c.tag = "list"
    THEN PyJoin([i \in 1..Len(c.parts) |-> PartText(c.parts[i])])
    ELSE Ok(PyStr(c))

\* Faulty variant: only the first part of a list is kept
NormalizeConsultantFirstOnly(c) ==
    IF c.tag = "list"
    THEN PyJoin([i \in 1..(IF Len(c.parts) = 0 THEN 0 ELSE 1) |-> PartText(c.parts[i])])
    ELSE Ok(PyStr(c))

\* node_consultant: response_text = response.content; joined if a list; str()
NormalizeConsultant(c) ==
    IF c.tag = "list"
    THEN PyJoin([i \in 1..Len(c.parts) |-> PartText(c.parts[i])])
    ELSE Ok(PyStr(c))

(***************************************************************************)
(* Messages sent to the oracle                                             *)
(***************************************************************************)
INSPECTOR_PROMPT == <<"Analyze this image strictly for construction ... Do not give advice yet.">>
DATA_URL_PREFIX  == <<"data:image/jpeg;base64,">>
CONSULTANT_HEAD  == <<"You are a Lead Engineer ... - Visual Inspection Report: ">>
CONSULTANT_MID   == <<"\n - User Question: \"">>
CONSULTANT_TAIL  == <<"\"\n INSTRUCTIONS: 1. ... 5. CALL TO ACTION: ...">>

\* Faulty variant: the user's question appended to the inspector's instruction
InspectorMessageWithQuestion(st) ==
    [text |-> INSPECTOR_PROMPT \o st.user_prompt, has_image |-> TRUE,
     image_url |-> DATA_URL_PREFIX \o st.image_data]

\* HumanMessage(content=[{"type": "text", ...}, {"type": "image_url", ...}])
InspectorMessage(st) ==
    [text |-> INSPECTOR_PROMPT, has_image |-> TRUE,
     image_url |-> DATA_URL_PREFIX \o st.image_data]

\* Faulty variant: the analysis cut to its first character
ConsultantPromptTruncated(analysis, user_q) ==
    CONSULTANT_HEAD \o (IF analysis = << >> THEN << >> ELSE <<analysis[1]>>) \o CONSULTANT_MID \o user_q \o CONSULTANT_TAIL

\* the f-string prompt_content
ConsultantPrompt(analysis, user_q) ==
    CONSULTANT_HEAD \o analysis \o CONSULTANT_MID \o user_q \o CONSULTANT_TAIL

\* HumanMessage(content=prompt_content)
ConsultantMessage(st) ==
    [text |-> ConsultantPrompt(st.visual_analysis, st.user_prompt),
     has_image |-> FALSE, image_url |-> << >>]

(***************************************************************************)
(* The oracle (llm.invoke): returns a content or raises                    *)
(***************************************************************************)
Returned(c) == [raised |-> FALSE, content |-> c,     exc |-> [cls |-> "", msg |-> << >>]]
Threw(e)    == [raised |-> TRUE,  content |-> NoneV, exc |-> e]

\* the contents and errors the oracle answers with in the pipeline runs
TextA == <<"a", "b">>
TextB == <<"b">>
PipelineContents ==
    {StrV(TextA), StrV(TextB), StrV(<< >>),
     ListV(<<DictPart("text", NoneV)>>)}
OracleErrors == {[cls |-> "ResourceExhausted", msg |-> <<"429 quota exceeded">>]}
OracleOutcomes == {Returned(c) : c \in PipelineContents} \cup {Threw(e) : e \in OracleErrors}

\* what a node's body yields for an oracle outcome: the text of its update, or
\* the exception that leaves the node
\* Faulty variant: node_inspector catches the oracle's exception and stores an empty analysis
InspectorResultSwallow(outcome) ==
    IF outcome.raised THEN Ok(<< >>) ELSE NormalizeInspector(outcome.content)

InspectorResult(outcome) ==
    IF outcome.raised THEN Raised(outcome.exc) ELSE NormalizeInspector(outcome.content)

\* Faulty variant: node_consultant catches the oracle's exception and stores an empty response
ConsultantResultSwallow(outcome) ==
    IF outcome.raised THEN Ok(<< >>) ELSE NormalizeConsultant(outcome.content)

ConsultantResult(outcome) ==
    IF outcome.raised THEN Raised(outcome.exc) ELSE NormalizeConsultant(outcome.content)

(***************************************************************************)
(* The graph                                                               *)
(***************************************************************************)
Fields == {"image_data", "user_prompt", "visual_analysis", "final_response"}

\* Faulty variant: node_inspector returns the other text field too, reset
InspectorUpdateClobber(text) == [visual_analysis |-> text, final_response |-> << >>]

\* the dict node_inspector returns
InspectorUpdate(text) == [visual_analysis |-> text]

\* the dict node_consultant returns
ConsultantUpdate(text) == [final_response |-> text]

\* the graph writes the keys of a node's returned dict into the state
ApplyUpdate(st, upd) == [f \in DOMAIN st |-> IF f \in DOMAIN upd THEN upd[f] ELSE st[f]]

NoWrites == [f \in Fields |-> << >>]
LogUpdate(w, node, upd) == [f \in Fields |-> IF f \in DOMAIN upd THEN Append(w[f], node) ELSE w[f]]

EntryPoint == "inspector"

\* Faulty variant: an edge from the consultant back to the inspector
NextNodeLoop(node) ==
    CASE node = "inspector"  -> "consultant"
      [] node = "consultant" -> "inspector"

NextNode(node) ==
    CASE node = "inspector"  -> "consultant"
      [] node = "consultant" -> "END"

(***************************************************************************)
(* The request boundary                                                    *)
(***************************************************************************)
Field(t) == [present |-> TRUE,  s |-> t]
Missing  == [present |-> FALSE, s |-> << >>]

\* the request bodies clients send
Image    == <<"i", "m", "g">>
Question == <<"q", "?">>
Bodies ==
    {[image_base64 |-> Field(<< >>),  question |-> Field(<< >>)],
     [image_base64 |-> Field(Image),  question |-> Field(Question)],
     [image_base64 |-> Field(Image),  question |-> Field(<< >>)],
     [image_base64 |-> Field(Image),  question |-> Missing],
     [image_base64 |-> Missing,       question |-> Field(Question)]}

\* Faulty variant: empty strings rejected
ValidNonEmpty(b) ==
    /\ b.image_base64.present /\ b.image_base64.s # << >>
    /\ b.question.present /\ b.question.s # << >>

\* AnalyzeRequest: both fields required, of type str
Valid(b) == b.image_base64.present /\ b.question.present

NoBody  == [image_base64 |-> Missing, question |-> Missing]
NoState == [absent |-> TRUE]
NoResp  == [status |-> 0, body |-> [none |-> TRUE]]

\* Faulty variant: the analysis starts as a placeholder text
InputsPrefilled(b) ==
    [image_data |-> b.image_base64.s, user_prompt |-> b.question.s,
     visual_analysis |-> <<"pending">>, final_response |-> << >>]

\* the inputs dict of analyze_project
Inputs(b) ==
    [image_data |-> b.image_base64.s, user_prompt |-> b.question.s,
     visual_analysis |-> << >>, final_response |-> << >>]

\* str(e)
StrOfException(e) == e.msg

\* Faulty variant: the two result fields exchanged
SuccessResponseSwapped(result) ==
    [status |-> 200,
     body |-> [analysis |-> result.final_response, response |-> result.visual_analysis]]

\* the return value of analyze_project, sent with status 200
SuccessResponse(result) ==
    [status |-> 200,
     body |-> [analysis |-> result.visual_analysis, response |-> result.final_response]]

\* Faulty variant: a fixed detail instead of str(e)
ErrorResponseGeneric(e) == [status |-> 500, body |-> [detail |-> <<"Internal Server Error">>]]

\* raise HTTPException(status_code=500, detail=str(e))
ErrorResponse(e) == [status |-> 500, body |-> [detail |-> StrOfException(e)]]

\* the framework's answer to a body that fails AnalyzeRequest
ValidationResponse == [status |-> 422, body |-> [detail |-> <<"Field required">>]]

(***************************************************************************)
(* The pipeline: one action per step of a request                          *)
(***************************************************************************)
FnIdle   == [kind |-> "none", c |-> NoneV]
FnNotRun == [by |-> "none", res |-> Ok(<< >>)]

Init ==
    /\ body = [r \in Requests |-> NoBody]
    /\ pc = [r \in Requests |-> "idle"]
    /\ state = [r \in Requests |-> NoState]
    /\ calls = [r \in Requests |-> << >>]
    /\ resp = [r \in Requests |-> NoResp]
    /\ running = 0
    /\ writes = [r \in Requests |-> NoWrites]
    /\ fn_in = FnIdle
    /\ fn_out = FnNotRun

\* the framework parses the body of request r against AnalyzeRequest
Receive(r) ==
    /\ running = 0
    /\ pc[r] = "idle"
    /\ \E b \in Bodies :
         /\ body' = [body EXCEPT ![r] = b]
         /\ IF Valid(b)
            THEN /\ pc' = [pc EXCEPT ![r] = "accepted"]
                 /\ UNCHANGED resp
            ELSE /\ pc' = [pc EXCEPT ![r] = "responded"]
                 /\ resp' = [resp EXCEPT ![r] = ValidationResponse]
    /\ UNCHANGED <<state, calls, running, writes, fn_in, fn_out>>

\* Faulty variant: one inputs dict shared by all requests (a module-level state)
BeginShared(r) ==
    /\ running = 0
    /\ pc[r] = "accepted"
    /\ running' = r
    /\ state' = [q \in Requests |-> Inputs(body[r])]
    /\ pc' = [pc EXCEPT ![r] = EntryPoint]
    /\ UNCHANGED <<body, calls, resp, writes, fn_in, fn_out>>

\* Faulty variant: the graph run is handed to a worker thread, so a handler
\* starts whether or not another one is in its run
BeginConcurrent(r) ==
    /\ pc[r] = "accepted"
    /\ running' = r
    /\ state' = [state EXCEPT ![r] = Inputs(body[r])]
    /\ pc' = [pc EXCEPT ![r] = EntryPoint]
    /\ UNCHANGED <<body, calls, resp, writes, fn_in, fn_out>>

\* analyze_project starts: inputs built, app_graph.invoke(inputs) enters the
\* entry node; the handler never awaits, so it holds the event loop until it ends
Begin(r) ==
    /\ running = 0
    /\ pc[r] = "accepted"
    /\ running' = r
    /\ state' = [state EXCEPT ![r] = Inputs(body[r])]
    /\ pc' = [pc EXCEPT ![r] = EntryPoint]
    /\ UNCHANGED <<body, calls, resp, writes, fn_in, fn_out>>

\* Faulty variant: the failing handler never gives the event loop back
FailHoldsLoop(r, e) ==
    /\ pc' = [pc EXCEPT ![r] = "responded"]
    /\ resp' = [resp EXCEPT ![r] = ErrorResponse(e)]
    /\ UNCHANGED <<running, state, writes>>

\* an exception leaves app_graph.invoke and is caught by analyze_project
Fail(r, e) ==
    /\ pc' = [pc EXCEPT ![r] = "responded"]
    /\ resp' = [resp EXCEPT ![r] = ErrorResponse(e)]
    /\ running' = 0
    /\ UNCHANGED <<state, writes>>

\* node_inspector: one llm.invoke, normalization, update of visual_analysis
Inspector(r) ==
    /\ running = r
    /\ pc[r] = "inspector"
    /\ \E outcome \in OracleOutcomes :
         LET res == InspectorResult(outcome)
         IN  /\ calls' = [calls EXCEPT ![r] =
                   Append(@, [node |-> "inspector", message |-> InspectorMessage(state[r]),
                              outcome |-> outcome])]
             /\ IF res.ok
                THEN /\ state' = [state EXCEPT ![r] = ApplyUpdate(@, InspectorUpdate(res.s))]
                     /\ writes' = [writes EXCEPT ![r] =
                           LogUpdate(@, "inspector", InspectorUpdate(res.s))]
                     /\ pc' = [pc EXCEPT ![r] = NextNode("inspector")]
                     /\ UNCHANGED <<resp, running>>
                ELSE Fail(r, res.exc)
    /\ UNCHANGED <<body, fn_in, fn_out>>

\* node_consultant: one llm.invoke, normalization, update of final_response
Consultant(r) ==
    /\ running = r
    /\ pc[r] = "consultant"
    /\ \E outcome \in OracleOutcomes :
         LET res == ConsultantResult(outcome)
         IN  /\ calls' = [calls EXCEPT ![r] =
                   Append(@, [node |-> "consultant", message |-> ConsultantMessage(state[r]),
                              outcome |-> outcome])]
             /\ IF res.ok
                THEN /\ state' = [state EXCEPT ![r] = ApplyUpdate(@, ConsultantUpdate(res.s))]
                     /\ writes' = [writes EXCEPT ![r] =
                           LogUpdate(@, "consultant", ConsultantUpdate(res.s))]
                     /\ pc' = [pc EXCEPT ![r] = NextNode("consultant")]
                     /\ UNCHANGED <<resp, running>>
                ELSE Fail(r, res.exc)
    /\ UNCHANGED <<body, fn_in, fn_out>>

\* app_graph.invoke returned the final state; analyze_project returns
Respond(r) ==
    /\ running = r
    /\ pc[r] = "END"
    /\ resp' = [resp EXCEPT ![r] = SuccessResponse(state[r])]
    /\ pc' = [pc EXCEPT ![r] = "responded"]
    /\ running' = 0
    /\ UNCHANGED <<body, state, calls, writes, fn_in, fn_out>>

Next ==
    \E r \in Requests :
        \/ Receive(r)
        \/ Begin(r)
        \/ Inspector(r)
        \/ Consultant(r)
        \/ Respond(r)

Spec == Init /\ [][Next]_vars

\* Every oracle call returns or raises, a handler that can run is run by the
\* event loop, and a graph run that reached END returns.
Fairness ==
    \A r \in Requests :
        /\ WF_vars(Begin(r))
        /\ WF_vars(Inspector(r))
        /\ WF_vars(Consultant(r))
        /\ WF_vars(Respond(r))

SpecLive == Spec /\ Fairness

(***************************************************************************)
(* The normalization alone, over every content shape                       *)
(***************************************************************************)
InitFn ==
    /\ body = [r \in Requests |-> NoBody]
    /\ pc = [r \in Requests |-> "idle"]
    /\ state = [r \in Requests |-> NoState]
    /\ calls = [r \in Requests |-> << >>]
    /\ resp = [r \in Requests |-> NoResp]
    /\ running = 0
    /\ writes = [r \in Requests |-> NoWrites]
    /\ fn_in \in {[kind |-> "content", c |-> c] : c \in AllContents}
    /\ fn_out = FnNotRun

ApplyInspector ==
    /\ fn_in.kind = "content"
    /\ fn_out.by = "none"
    /\ fn_out' = [by |-> "inspector", res |-> NormalizeInspector(fn_in.c)]
    /\ UNCHANGED <<body, pc, state, calls, resp, running, writes, fn_in>>

ApplyConsultant ==
    /\ fn_in.kind = "content"
    /\ fn_out.by = "none"
    /\ fn_out' = [by |-> "consultant", res |-> NormalizeConsultant(fn_in.c)]
    /\ UNCHANGED <<body, pc, state, calls, resp, running, writes, fn_in>>

NextFn == ApplyInspector \/ ApplyConsultant

SpecFn == InitFn /\ [][NextFn]_vars

(***************************************************************************)
(* Properties                                                              *)
(***************************************************************************)
NCalls(r) == Len(calls[r])

\* call i of request r returned a plain string
ReturnedText(r, i) ==
    /\ ~calls[r][i].outcome.raised
    /\ calls[r][i].outcome.content.tag = "str"

\* what the node that made a call got out of it
NodeResult(call) ==
    IF call.node = "inspector" THEN InspectorResult(call.outcome)
    ELSE ConsultantResult(call.outcome)

\* C1: when the oracle returns text A to Stage 1 and text B to Stage 2, the
\* request does not fail and its response is 200 {analysis: A, response: B}.
C1_ExactResult ==
    \A r \in Requests :
        /\ (NCalls(r) = 1 /\ ReturnedText(r, 1)) => pc[r] = "consultant"
        /\ (NCalls(r) = 2 /\ ReturnedText(r, 1) /\ ReturnedText(r, 2)) =>
              /\ calls[r][1].node = "inspector"
              /\ calls[r][2].node = "consultant"
              /\ pc[r] \in {"END", "responded"}
              /\ pc[r] = "responded" =>
                    resp[r] = [status |-> 200,
                               body |-> [analysis |-> calls[r][1].outcome.content.s,
                                         response |-> calls[r][2].outcome.content.s]]

C1_Witness ==
    \E r \in Requests :
        /\ pc[r] = "responded"
        /\ NCalls(r) = 2
        /\ calls[r][1].outcome = Returned(StrV(TextA))
        /\ calls[r][2].outcome = Returned(StrV(TextB))
        /\ resp[r].status = 200

\* C2: when the oracle raises on the inspector call, no consultant call is made
\* for that request and the response is HTTP 500.
C2_Stage1Failure ==
    \A r \in Requests :
        (NCalls(r) >= 1 /\ calls[r][1].node = "inspector" /\ calls[r][1].outcome.raised) =>
            /\ NCalls(r) = 1
            /\ pc[r] = "responded"
            /\ resp[r].status = 500

C2_Witness ==
    \E r \in Requests :
        /\ NCalls(r) = 1
        /\ calls[r][1].node = "inspector"
        /\ calls[r][1].outcome.raised
        /\ resp[r].status = 500

\* C3: when the oracle raises on the consultant call, the response is HTTP 500
\* and its body holds the error detail only: no analysis and no response field.
C3_Stage2Failure ==
    \A r \in Requests :
        \A i \in 1..NCalls(r) :
            (calls[r][i].node = "consultant" /\ calls[r][i].outcome.raised) =>
                /\ pc[r] = "responded"
                /\ resp[r].status = 500
                /\ DOMAIN resp[r].body = {"detail"}
                /\ resp[r].body.detail = calls[r][i].outcome.exc.msg

C3_Witness ==
    \E r \in Requests :
        /\ NCalls(r) = 2
        /\ calls[r][2].node = "consultant"
        /\ calls[r][2].outcome.raised
        /\ state[r].visual_analysis = TextA
        /\ resp[r].status = 500

\* C4: every exception raised in a pipeline run (by the oracle in either stage,
\* or by the normalization) ends the request with HTTP 500 whose detail is the
\* string form of that exception; a run in which one was raised never gives 200.
C4_CatchAll ==
    \A r \in Requests :
        /\ \A i \in 1..NCalls(r) :
              ~NodeResult(calls[r][i]).ok =>
                  /\ pc[r] = "responded"
                  /\ resp[r] = [status |-> 500,
                                body |-> [detail |-> NodeResult(calls[r][i]).exc.msg]]
        /\ (pc[r] = "responded" /\ NCalls(r) >= 1) => resp[r].status \in {200, 500}
        /\ resp[r].status = 200 => \A i \in 1..NCalls(r) : NodeResult(calls[r][i]).ok

C4_Witness ==
    \E r, q \in Requests :
        /\ resp[r].status = 500
        /\ calls[r][NCalls(r)].outcome.raised
        /\ resp[r].body.detail = <<"429 quota exceeded">>
        /\ resp[q].status = 500
        /\ ~calls[q][NCalls(q)].outcome.raised
        /\ NodeResult(calls[q][NCalls(q)]).exc.cls = "TypeError"

\* the content is a list of {"type": "text", "text": <str>} parts
IsTextPart(part) ==
    part.kind = "dict" /\ part.type = "text" /\ part.has_text /\ part.val.tag = "str"

AllTextParts(c) == c.tag = "list" /\ \A i \in 1..Len(c.parts) : IsTextPart(c.parts[i])

\* t_1 t_2 ... t_n of the text parts of a list, the other parts skipped
RECURSIVE ConcatTextParts(_)
ConcatTextParts(ps) ==
    IF ps = << >> THEN << >>
    ELSE (IF IsTextPart(Head(ps)) THEN Head(ps).val.s ELSE << >>) \o ConcatTextParts(Tail(ps))

\* C5: in both stages, a plain string content is stored unchanged, a list of
\* text parts is stored as the concatenation of their texts in list order, and
\* normalizing the stored string again gives the same string.
C5_Normalization ==
    fn_out.by # "none" =>
        /\ fn_in.c.tag = "str" => fn_out.res = Ok(fn_in.c.s)
        /\ AllTextParts(fn_in.c) => fn_out.res = Ok(ConcatTextParts(fn_in.c.parts))
        /\ fn_out.res.ok =>
              /\ NormalizeInspector(StrV(fn_out.res.s)) = fn_out.res
              /\ NormalizeConsultant(StrV(fn_out.res.s)) = fn_out.res

C5_Witness ==
    /\ fn_out.by = "consultant"
    /\ fn_in.c = ListV(<<DictPart("text", StrV(<<"a">>)), DictPart("text", StrV(<<"b">>))>>)
    /\ fn_out.res = Ok(<<"a", "b">>)

\* C6 as stated: a list content is stored as the concatenation of its text
\* parts only; every other element (a typed part of another type, an element
\* that is no typed part) contributes nothing.
C6_OnlyTextParts ==
    (fn_out.by # "none" /\ fn_in.c.tag = "list" /\ fn_out.res.ok) =>
        fn_out.res.s = ConcatTextParts(fn_in.c.parts)

\* what one list element adds to the stored text
Contribution(part) ==
    IF part.kind = "dict"
    THEN IF part.has_text THEN part.val.s ELSE << >>
    ELSE CASE part.val.tag = "str"  -> part.val.s
           [] part.val.tag = "none" -> <<"N", "o", "n", "e">>
           [] part.val.tag = "int"  -> NatToStr(part.val.n)

RECURSIVE ConcatContributions(_)
ConcatContributions(ps) ==
    IF ps = << >> THEN << >>
    ELSE ConcatContributions(SubSeq(ps, 1, Len(ps) - 1)) \o Contribution(ps[Len(ps)])

HasNonStrText(ps) ==
    \E i \in 1..Len(ps) : ps[i].kind = "dict" /\ ps[i].has_text /\ ps[i].val.tag # "str"

\* C6 amended: a list content is stored as the concatenation, in list order, of
\* one contribution per element: a dict part gives its "text" value when it has
\* that key (whatever its type) and nothing when it has not; an element that is
\* no dict gives its string form. When the "text" value of a dict part is no
\* string the join raises TypeError and nothing is stored.
C6_Contributions ==
    (fn_out.by # "none" /\ fn_in.c.tag = "list") =>
        IF HasNonStrText(fn_in.c.parts)
        THEN ~fn_out.res.ok /\ fn_out.res.exc.cls = "TypeError"
        ELSE fn_out.res = Ok(ConcatContributions(fn_in.c.parts))

C6_Witness ==
    /\ fn_out.by = "inspector"
    /\ fn_in.c = ListV(<<DictNoText("image_url"), Elem(StrV(<<"a">>))>>)
    /\ fn_out.res = Ok(<<"a">>)

\* C7: whatever content the oracle returns without raising, the request does
\* not end in an error: a request whose oracle calls all returned ends with 200.
C7_NoShapeFailure ==
    \A r \in Requests :
        (/\ pc[r] = "responded"
         /\ NCalls(r) >= 1
         /\ \A i \in 1..NCalls(r) : ~calls[r][i].outcome.raised) =>
            resp[r].status = 200

IsSubstring(sub, t) ==
    \E k \in 0..(Len(t) - Len(sub)) : SubSeq(t, k + 1, k + Len(sub)) = sub

\* C8: the prompt of the consultant call contains, as contiguous substrings, the
\* visual_analysis stored by the inspector and the question of the request.
C8_PromptEmbeds ==
    \A r \in Requests :
        \A i \in 1..NCalls(r) :
            calls[r][i].node = "consultant" =>
                /\ i = 2
                /\ state[r].visual_analysis = NodeResult(calls[r][1]).s
                /\ IsSubstring(state[r].visual_analysis, calls[r][i].message.text)
                /\ IsSubstring(body[r].question.s, calls[r][i].message.text)

C8_Witness ==
    \E r \in Requests :
        /\ NCalls(r) = 2
        /\ calls[r][2].node = "consultant"
        /\ state[r].visual_analysis = TextA
        /\ body[r].question.s = Question

EmptyBody == [image_base64 |-> Field(<< >>), question |-> Field(<< >>)]

\* C9: a request with image_base64 = "" and question = "" is accepted, nothing
\* ends it but a failed oracle call or normalization, and when both calls return
\* text it gets the two texts back; a request that fails the field validation
\* is answered 422 and never starts the pipeline.
C9_NoPreconditions ==
    \A r \in Requests :
        /\ (pc[r] # "idle" /\ body[r] = EmptyBody) =>
              /\ resp[r].status # 422
              /\ pc[r] \in {"consultant", "END", "responded"} => calls[r][1].node = "inspector"
              /\ resp[r].status = 500 => ~NodeResult(calls[r][NCalls(r)]).ok
              /\ resp[r].status = 200 =>
                    /\ NCalls(r) = 2
                    /\ calls[r][2].node = "consultant"
                    /\ resp[r].body.analysis = NodeResult(calls[r][1]).s
                    /\ resp[r].body.response = NodeResult(calls[r][2]).s
              /\ pc[r] = "responded" => resp[r].status \in {200, 500}
        /\ (pc[r] # "idle" /\ ~Valid(body[r])) =>
              /\ pc[r] = "responded"
              /\ resp[r].status = 422
              /\ calls[r] = << >>
              /\ state[r] = NoState

C9_Witness ==
    \E r, q \in Requests :
        /\ body[r] = EmptyBody
        /\ resp[r].status = 200
        /\ NCalls(r) = 2
        /\ resp[r].body = [analysis |-> TextA, response |-> TextB]
        /\ resp[q].status = 422

\* C10: the oracle calls of a request are the inspector's, then the
\* consultant's, each at most once; the consultant's call is made only after the
\* inspector's has returned; a failed call is the last one; and a finished
\* request (END or responded) made exactly these calls and makes no more.
C10_FixedOrder ==
    \A r \in Requests :
        /\ NCalls(r) <= 2
        /\ NCalls(r) >= 1 => calls[r][1].node = "inspector"
        /\ NCalls(r) = 2 => calls[r][2].node = "consultant" /\ NodeResult(calls[r][1]).ok
        /\ \A i \in 1..NCalls(r) : ~NodeResult(calls[r][i]).ok => i = NCalls(r)
        /\ pc[r] \in {"idle", "accepted", "inspector"} => NCalls(r) = 0
        /\ pc[r] = "consultant" => NCalls(r) = 1
        /\ pc[r] = "END" => NCalls(r) = 2 /\ NodeResult(calls[r][2]).ok
        /\ (pc[r] = "responded" /\ resp[r].status = 200) => NCalls(r) = 2
        /\ (pc[r] = "responded" /\ resp[r].status = 500) =>
              NCalls(r) >= 1 /\ ~NodeResult(calls[r][NCalls(r)]).ok

C10_Witness ==
    \E r, q \in Requests :
        /\ pc[r] = "responded"
        /\ resp[r].status = 200
        /\ NCalls(r) = 2
        /\ pc[q] = "responded"
        /\ resp[q].status = 500
        /\ NCalls(q) = 1


Created(r) == state[r] # NoState

\* the write log of request r: no field written twice, the inputs never
\* written, each text field written by its own node only
WritesInOrder(r) ==
    /\ \A f \in Fields : Len(writes[r][f]) <= 1
    /\ writes[r]["image_data"] = << >>
    /\ writes[r]["user_prompt"] = << >>
    /\ writes[r]["visual_analysis"] \in {<< >>, <<"inspector">>}
    /\ writes[r]["final_response"] \in {<< >>, <<"consultant">>}
    /\ Created(r) =>
          /\ state[r].image_data = body[r].image_base64.s
          /\ state[r].user_prompt = body[r].question.s
    /\ (pc[r] \in {"consultant", "END"} \/ resp[r].status = 200) =>
          writes[r]["visual_analysis"] = <<"inspector">>
    /\ (pc[r] = "END" \/ resp[r].status = 200) =>
          writes[r]["final_response"] = <<"consultant">>

\* one step, seen from request r: the inputs keep their values, the inspector's
\* step leaves final_response alone and the consultant's leaves visual_analysis
FrameStep(r) ==
    /\ Created(r) =>
          /\ state'[r] # NoState
          /\ state'[r].image_data = state[r].image_data
          /\ state'[r].user_prompt = state[r].user_prompt
    /\ (NCalls(r) = 0 /\ Len(calls'[r]) = 1) =>
          /\ calls'[r][1].node = "inspector"
          /\ state'[r].final_response = state[r].final_response
    /\ (NCalls(r) = 1 /\ Len(calls'[r]) = 2) =>
          /\ calls'[r][2].node = "consultant"
          /\ state'[r].visual_analysis = state[r].visual_analysis
    /\ Len(calls'[r]) = NCalls(r) => state'[r] = state[r] \/ ~Created(r)
    /\ WritesInOrder(r)'

\* C11: in a run no state field is written more than once: image_data and
\* user_prompt keep their creation values, visual_analysis is written by the
\* inspector only and final_response by the consultant only, each exactly once
\* in a run where that node completes; the inspector's step leaves
\* final_response unchanged and the consultant's leaves visual_analysis unchanged.
C11_WriteOnce == [][\A r \in Requests : FrameStep(r)]_vars

C11_Witness ==
    \E r \in Requests :
        /\ resp[r].status = 200
        /\ writes[r]["visual_analysis"] = <<"inspector">>
        /\ writes[r]["final_response"] = <<"consultant">>
        /\ state[r].image_data = Image
        /\ state[r].visual_analysis = TextA
        /\ state[r].final_response = TextB


\* the node's oracle call returned and its update was written
Stage1Done(r) == NCalls(r) >= 1 /\ NodeResult(calls[r][1]).ok
Stage2Done(r) == NCalls(r) = 2 /\ NodeResult(calls[r][2]).ok

C13_StageInputs ==
    \A r, q \in Requests :
        /\ (NCalls(r) >= 1 /\ NCalls(q) >= 1
              /\ body[r].image_base64 = body[q].image_base64) =>
              /\ calls[r][1].message = calls[q][1].message
              /\ (calls[r][1].outcome = calls[q][1].outcome /\ Stage1Done(r)) =>
                    state[r].visual_analysis = state[q].visual_analysis
        /\ (NCalls(r) = 2 /\ NCalls(q) = 2
              /\ state[r].visual_analysis = state[q].visual_analysis
              /\ state[r].user_prompt = state[q].user_prompt) =>
              calls[r][2].message = calls[q][2].message

C13_Witness ==
    \E r, q \in Requests :
        /\ body[r].image_base64 = Field(Image)
        /\ body[q].image_base64 = Field(Image)
        /\ body[r].question = Field(Question)
        /\ body[q].question = Field(<< >>)
        /\ NCalls(r) = 2
        /\ NCalls(q) = 2
        /\ calls[r][1].outcome = Returned(StrV(TextA))
        /\ calls[q][1].outcome = Returned(StrV(TextA))
        /\ calls[r][2].message # calls[q][2].message


\* everything the program holds for request r
Own(r) == <<body[r], pc[r], state[r], calls[r], resp[r], writes[r]>>

\* what request r holds and returns comes from its own body and its own oracle calls
OwnData(r) ==
    /\ Created(r) =>
          /\ state[r].image_data = body[r].image_base64.s
          /\ state[r].user_prompt = body[r].question.s
    /\ NCalls(r) >= 1 =>
          calls[r][1].message.image_url = DATA_URL_PREFIX \o body[r].image_base64.s
    /\ Stage1Done(r) => state[r].visual_analysis = NodeResult(calls[r][1]).s
    /\ NCalls(r) = 2 =>
          calls[r][2].message.text =
              CONSULTANT_HEAD \o NodeResult(calls[r][1]).s \o CONSULTANT_MID
                  \o body[r].question.s \o CONSULTANT_TAIL
    /\ Stage2Done(r) => state[r].final_response = NodeResult(calls[r][2]).s
    /\ resp[r].status = 200 =>
          resp[r].body = [analysis |-> NodeResult(calls[r][1]).s,
                          response |-> NodeResult(calls[r][2]).s]

\* C14: with several requests in flight, every step changes what is held for
\* one request only, and what a request holds and returns is built from its own
\* body and the oracle's answers to its own two calls.
C14_Isolation ==
    [][\A r, q \in Requests :
          /\ (r # q /\ Own(r)' # Own(r)) => Own(q)' = Own(q)
          /\ OwnData(r)']_vars

C14_Witness ==
    \E r, q \in Requests :
        /\ pc[r] = "consultant"
        /\ state[r].visual_analysis = TextA
        /\ pc[q] = "accepted"
        /\ body[q].image_base64 # body[r].image_base64


\* the request has its one final answer: 200 with both texts or 500 with a detail
Answered(r) ==
    /\ pc[r] = "responded"
    /\ NCalls(r) <= 2
    /\ \/ resp[r].status = 200 /\ DOMAIN resp[r].body = {"analysis", "response"}
       \/ resp[r].status = 500 /\ DOMAIN resp[r].body = {"detail"}

\* C15: when every oracle call returns or raises, every accepted request is
\* eventually answered, with 200 and both texts or with 500 and a detail, after
\* at most two oracle calls; once answered, its answer and its calls never change.
C15_Terminates ==
    /\ \A r \in Requests : (pc[r] = "accepted") ~> Answered(r)
    /\ [][\A r \in Requests :
             pc[r] = "responded" =>
                 /\ pc'[r] = "responded"
                 /\ resp'[r] = resp[r]
                 /\ calls'[r] = calls[r]]_vars

C15_Witness ==
    \E r, q \in Requests :
        /\ Answered(r)
        /\ resp[r].status = 200
        /\ NCalls(r) = 2
        /\ Answered(q)
        /\ resp[q].status = 500
        /\ NCalls(q) = 2


\* request r is between the start of its Stage 1 and the end of its graph run
InRun(r) == pc[r] \in {"inspector", "consultant", "END"}

\* C16: the pipeline runs of different requests are serialized: while a request
\* is between the start of its Stage 1 and the end of its Stage 2 (or its
\* failure), no other request starts or executes a stage.
C16_Serialized ==
    [][\A r, q \in Requests :
          (r # q /\ InRun(r)) =>
              /\ ~InRun(q)
              /\ ~InRun(q)'
              /\ calls'[q] = calls[q]
              /\ state'[q] = state[q]
              /\ running = r]_vars

C16_Witness ==
    \E r, q \in Requests :
        /\ running = r
        /\ pc[r] = "inspector"
        /\ pc[q] = "accepted"
        /\ body[q] # NoBody

====
